---- MODULE Spec2Model ----
(***************************************************************************)
(* Call-session lifecycle of web/app.js: the module-level handles client,  *)
(* roomSession and isMuted, the start/end/mute controls, the asynchronous  *)
(* continuations of startCall() and hangup(), the transport's signals and  *)
(* the dispatch of user_event messages to the gift UI.                     *)
(*                                                                         *)
(* Every handler of app.js is an operator from a state record to the state *)
(* record after the handler has run to its end or to its next await; an    *)
(* action applies one handler to the current state.                        *)
(***************************************************************************)
EXTENDS Integers, Sequences, FiniteSets, TLC

\* ---------------------------------------------------------------- bounds
MaxCalls == 2      \* startCall() invocations that pass the debounce guard
MaxPending == 1    \* hangup() invocations suspended at roomSession.hangup()
NumTracks == 2     \* local media tracks of a session (odd: audio, even: video)
MaxEvents == 2     \* user_event messages the transport emits

Calls == 1 .. MaxCalls
Tracks == 1 .. NumTracks
Null == 0

\* A local track is an audio track (getAudioTracks) or a video track.
IsAudio(t) == t % 2 = 1

\* Where the SDK exposes the local MediaStream of a session (toggleMute probes
\* roomSession.localStream, then roomSession.peer.localStream).
StreamPaths == {"primary", "peer", "none"}

VARIABLES
    client,        \* let client: Null or the id of the client object
    roomSession,   \* let roomSession: Null or the id of the session object
    isMuted,       \* let isMuted
    startBtn,      \* #startBtn: [display, disabled, text]
    endBtn,        \* #endBtn style.display
    muteBtn,       \* #muteBtn: [display, text]
    placeholder,   \* #video-placeholder style.display
    videos,        \* <video> elements the SDK injected into #video-container
    gallery,       \* #giftGallery: [display, kind, cards]
    showcase,      \* #giftShowcase: [display, image, name, price]
    searchStatus,  \* #searchStatus style.display
    checker,       \* #niceListChecker: [display, name, timers]
    status,        \* last (state) argument of updateStatus (console only)
    effects,       \* [sounds, confetti, renders]: side effects performed
    pc,            \* per startCall invocation: where it is suspended
    hangups,       \* per session: hangup() calls suspended at its hangup()
    clients,       \* per client object: "none", "open", "closed"
    sessions,      \* per session object: "none", or "made" once dial returned it
    streamAt,      \* where this SDK build exposes a session's local stream
    tracks,        \* per session, per local track: [stopped, enabled]
    emitted,       \* user_event messages emitted by the transport
    heard,         \* history: the messages emitted, in order
    giftState,     \* let giftState: [searchQuery, gifts, selectedGift, status]
    audioSettings, \* let audioSettings
    storage,       \* localStorage item 'santaAudioSettings': [kind, value]
    startup,       \* the DOMContentLoaded handler: "loading", "done", "aborted"
    escaped,       \* an exception left a handler uncaught
    last           \* history: the handler that ran last

vars == << client, roomSession, isMuted, startBtn, endBtn, muteBtn, placeholder,
           videos, gallery, showcase, searchStatus, checker, status, effects, pc,
           hangups, clients, sessions, streamAt, tracks, emitted, heard,
           giftState, audioSettings, storage, startup, escaped, last >>

\* The current state as one record, and the action of moving to state s.
Cur ==
    [ client |-> client, roomSession |-> roomSession, isMuted |-> isMuted,
      startBtn |-> startBtn, endBtn |-> endBtn, muteBtn |-> muteBtn,
      placeholder |-> placeholder, videos |-> videos, gallery |-> gallery,
      showcase |-> showcase, searchStatus |-> searchStatus, checker |-> checker,
      status |-> status, effects |-> effects, pc |-> pc, hangups |-> hangups,
      clients |-> clients, sessions |-> sessions, streamAt |-> streamAt,
      tracks |-> tracks,
      emitted |-> emitted, heard |-> heard, giftState |-> giftState,
      audioSettings |-> audioSettings, storage |-> storage,
      startup |-> startup,
      escaped |-> escaped, last |-> last ]

Becomes(s) ==
    /\ client' = s.client /\ roomSession' = s.roomSession /\ isMuted' = s.isMuted
    /\ startBtn' = s.startBtn /\ endBtn' = s.endBtn /\ muteBtn' = s.muteBtn
    /\ placeholder' = s.placeholder /\ videos' = s.videos /\ gallery' = s.gallery
    /\ showcase' = s.showcase /\ searchStatus' = s.searchStatus
    /\ checker' = s.checker /\ status' = s.status /\ effects' = s.effects
    /\ pc' = s.pc /\ hangups' = s.hangups /\ clients' = s.clients
    /\ sessions' = s.sessions /\ streamAt' = s.streamAt /\ tracks' = s.tracks
    /\ emitted' = s.emitted /\ heard' = s.heard /\ giftState' = s.giftState
    /\ audioSettings' = s.audioSettings /\ storage' = s.storage
    /\ startup' = s.startup
    /\ escaped' = s.escaped /\ last' = s.last

\* The program's own state: everything but the history variables.
Prog(s) == [s EXCEPT !.last = "", !.heard = << >>]

Did(s, op) == [s EXCEPT !.last = op]

\* ------------------------------------------------------------ UI values
TalkText == "Talk to Santa!"
ConnectingText == "Connecting..."
MuteText == "Mute"
UnmuteText == "Unmute"

NoCards == << >>
WelcomeGallery(d) == [display |-> d, kind |-> "welcome", cards |-> NoCards]
HiddenShowcase(sc) == [sc EXCEPT !.display = "none"]

FreshTracks == [t \in Tracks |-> [stopped |-> FALSE, enabled |-> TRUE]]

\* updateStatus(state, text): the status display was removed; it only logs.
updateStatus(s, state) == [s EXCEPT !.status = state]

\* resetUI()
resetUI(s) ==
    updateStatus(
        [s EXCEPT !.startBtn = [display |-> "block", disabled |-> FALSE,
                                text |-> TalkText],
                  !.endBtn = "none",
                  !.muteBtn.display = "none",
                  !.gallery = WelcomeGallery(s.gallery.display),
                  !.showcase = HiddenShowcase(s.showcase),
                  !.searchStatus = "none"],
        "waiting")

\* roomSession.localStream.getTracks().forEach(track => track.stop())
StopLocalTracks(s) ==
    IF s.roomSession # Null /\ s.streamAt = "primary"
    THEN [s EXCEPT !.tracks[s.roomSession] =
              [t \in Tracks |-> [@[t] EXCEPT !.stopped = TRUE]]]
    ELSE s

\* if (client) { try { client.disconnect() } catch {}; client = null }
ReleaseClient(s) ==
    IF s.client # Null
    THEN [s EXCEPT !.clients[s.client] = "closed", !.client = Null]
    ELSE s

\* The video container is emptied and the placeholder is created anew.
ClearContainer(s) == [s EXCEPT !.videos = {}, !.placeholder = "shown"]

\* disconnect()
disconnect(s) ==
    resetUI(ClearContainer(ReleaseClient(
        [StopLocalTracks(s) EXCEPT !.roomSession = Null])))

\* A step of disconnect() that raises an error: track.stop() of local track
\* `track`, client.disconnect(), or track.stop() of a rendered <video>'s stream.
Faults ==
    { [step |-> "local", track |-> t] : t \in Tracks }
    \cup { [step |-> "client", track |-> Null], [step |-> "video", track |-> Null] }

\* The step is reached by disconnect() in state s.
FaultApplies(s, f) ==
    CASE f.step = "local" -> s.roomSession # Null /\ s.streamAt = "primary"
      [] f.step = "client" -> s.client # Null
      [] f.step = "video" -> s.videos # {}

\* disconnect() when step f raises: only client.disconnect() is inside a
\* try/catch; an error of track.stop() leaves disconnect() where it is raised.
disconnectThrowing(s, f) ==
    CASE f.step = "local" ->
            [s EXCEPT !.tracks[s.roomSession] =
                          [t \in Tracks |->
                              IF t < f.track THEN [@[t] EXCEPT !.stopped = TRUE]
                                             ELSE @[t]],
                      !.escaped = TRUE]
      [] f.step = "client" ->
            resetUI(ClearContainer(
                [StopLocalTracks(s) EXCEPT !.roomSession = Null,
                                           !.client = Null]))
      [] f.step = "video" ->
            [ReleaseClient([StopLocalTracks(s) EXCEPT !.roomSession = Null])
                EXCEPT !.escaped = TRUE]

\* ------------------------------------------------------------ startCall
\* The id the next startCall() invocation gives its client and its session.
NextCall(s) == Cardinality({i \in Calls : s.pc[i] # "unused"}) + 1

\* catch (error) { updateStatus('error'); startBtn.disabled = false; ... }
startCallCatch(s, i) ==
    updateStatus([s EXCEPT !.startBtn.disabled = FALSE,
                           !.startBtn.text = TalkText,
                           !.pc[i] = "failed"],
                 "error")

\* startCall(), up to `await SignalWire.SignalWire(...)`
startCall(s, i) ==
    IF s.startBtn.disabled
    THEN s
    ELSE updateStatus([s EXCEPT !.startBtn.disabled = TRUE,
                                !.startBtn.text = ConnectingText,
                                !.pc[i] = "awaitClient"],
                      "connecting")

\* startCall(), from the settled client promise up to `await client.dial(...)`
startCallClient(s, i, ok) ==
    IF ok
    THEN [s EXCEPT !.client = i, !.clients[i] = "open", !.pc[i] = "awaitDial"]
    ELSE startCallCatch(s, i)

\* startCall(), from the settled dial promise up to `await roomSession.start()`
startCallDial(s, i, ok) ==
    IF ok
    THEN [s EXCEPT !.roomSession = i, !.sessions[i] = "made",
                   !.pc[i] = "awaitStart"]
    ELSE startCallCatch(s, i)

\* startCall(), from the settled start promise to the end
startCallStart(s, i, ok) ==
    IF ok
    THEN updateStatus([s EXCEPT !.startBtn.display = "none",
                                !.endBtn = "block",
                                !.muteBtn.display = "block",
                                !.pc[i] = "done"],
                      "connected")
    ELSE startCallCatch(s, i)

\* ------------------------------------------------- session event listeners
\* A call.joined listener that also shows the controls of an active call.
onCallJoinedShowsControls(s) ==
    [s EXCEPT !.placeholder = "none", !.startBtn.display = "none",
              !.endBtn = "block", !.muteBtn.display = "block"]

\* roomSession.on('call.joined'): hide the placeholder, handleRoomJoined logs
onCallJoined(s) == [s EXCEPT !.placeholder = "none"]

\* A call.updated listener that treats the signal as a termination signal.
onCallUpdatedEnds(s) == disconnect(s)

\* roomSession.on('call.updated'): handleRoomUpdated logs
onCallUpdated(s) == s

\* roomSession.on('call.ended'): handleRoomEnded (resetUI), then disconnect
onCallEnded(s) == disconnect(resetUI(s))

\* roomSession.on('destroy')
onDestroy(s) == disconnect(s)

\* roomSession.on('room.left')
onRoomLeft(s) == disconnect(s)

\* roomSession.on('stream.started' / 'media.connected'): the listeners log; the
\* SDK has put the session's <video> into rootElement.
onMediaConnected(s, i) == [s EXCEPT !.videos = @ \cup {i}]

\* ------------------------------------------------------- hangup, endCall
\* hangup(), up to `await roomSession.hangup()`; without a session there is no
\* await and disconnect() runs in the same turn.
hangup(s) ==
    IF s.roomSession # Null
    THEN [s EXCEPT !.hangups[s.roomSession] = @ + 1]
    ELSE disconnect(s)

\* hangup() without its catch: a rejected hangup leaves the function before
\* disconnect().
hangupSettledNoCatch(s, i, ok) ==
    IF ok
    THEN disconnect([s EXCEPT !.hangups[i] = @ - 1])
    ELSE [s EXCEPT !.hangups[i] = @ - 1, !.escaped = TRUE]

\* hangup(), from the settled hangup promise (resolved, or rejected and caught)
hangupSettled(s, i, ok) ==
    disconnect([s EXCEPT !.hangups[i] = @ - 1])

\* endCall()
endCall(s) == hangup(s)

\* window 'beforeunload' listener
beforeUnload(s) == IF s.roomSession # Null THEN hangup(s) ELSE s

\* ------------------------------------------------------------ toggleMute
SetAudioEnabled(s, i, on) ==
    [s EXCEPT !.tracks[i] =
        [t \in Tracks |-> IF IsAudio(t) THEN [@[t] EXCEPT !.enabled = on]
                                        ELSE @[t]]]

\* toggleMute() without the fallback to roomSession.peer.localStream.
toggleMutePrimaryOnly(s) ==
    IF s.roomSession = Null
    THEN s
    ELSE LET m == ~s.isMuted
             f == [s EXCEPT !.isMuted = m]
             g == IF s.streamAt = "primary"
                  THEN SetAudioEnabled(f, s.roomSession, ~m)
                  ELSE f
         IN  [g EXCEPT !.muteBtn.text = IF m THEN UnmuteText ELSE MuteText]

\* toggleMute()
toggleMute(s) ==
    IF s.roomSession = Null
    THEN s
    ELSE LET m == ~s.isMuted
             f == [s EXCEPT !.isMuted = m]
             g == IF s.streamAt \in {"primary", "peer"}
                  THEN SetAudioEnabled(f, s.roomSession, ~m)
                  ELSE f
         IN  [g EXCEPT !.muteBtn.text = IF m THEN UnmuteText ELSE MuteText]

\* ------------------------------------------------------- gift rendering
\* A field of a gift that is absent (or empty) is "": both are falsy for `||`.
Or(v, d) == IF v = "" THEN d ELSE v

FallbackTitle == "Mystery Gift"
FallbackPrice == "Ask Santa!"
FallbackDescription == "A wonderful Christmas gift!"
FallbackImage == "data:image/svg+xml"
ShowcaseFallbackImage == "placeholder.jpg"

\* createGiftCard() with the price taken as it comes.
createGiftCardRawPrice(gift, optionNumber) ==
    [ option |-> optionNumber,
      image |-> Or(gift.image, FallbackImage),
      title |-> Or(gift.title, FallbackTitle),
      price |-> gift.price,
      description |-> Or(gift.description, FallbackDescription),
      style |-> "plain" ]

\* createGiftCard(gift, optionNumber)
createGiftCard(gift, optionNumber) ==
    [ option |-> optionNumber,
      image |-> Or(gift.image, FallbackImage),
      title |-> Or(gift.title, FallbackTitle),
      price |-> Or(gift.price, FallbackPrice),
      description |-> Or(gift.description, FallbackDescription),
      style |-> "plain" ]

\* displayGifts() without its `gifts.length === 0` test: an empty list
\* clears the gallery.
displayGiftsNoLengthTest(s, gifts) ==
    IF ~gifts.present
    THEN s
    ELSE [s EXCEPT !.gallery.kind = "cards",
                   !.gallery.cards =
                       [n \in 1 .. Len(gifts.list) |->
                           createGiftCard(gifts.list[n], n)]]

\* displayGifts(gifts): gifts is [present, list]
displayGifts(s, gifts) ==
    IF ~gifts.present \/ Len(gifts.list) = 0
    THEN s
    ELSE [s EXCEPT !.gallery.kind = "cards",
                   !.gallery.cards =
                       [n \in 1 .. Len(gifts.list) |->
                           createGiftCard(gifts.list[n], n)]]

\* displaySelectedGift(gift): gift is [present, g]; reading a field of an
\* absent gift throws after the gallery has been hidden.
displaySelectedGift(s, gift) ==
    LET h == [s EXCEPT !.gallery.display = "none"]
    IN  IF ~gift.present
        THEN [h EXCEPT !.escaped = TRUE]
        ELSE [h EXCEPT !.showcase =
                  [display |-> "block",
                   image |-> Or(gift.g.image, ShowcaseFallbackImage),
                   name |-> gift.g.title,
                   price |-> gift.g.price]]

\* displayNiceListResult(name, status): show the panel, arm a 5 s hide timer
displayNiceListResult(s, name) ==
    [s EXCEPT !.checker = [display |-> "block", name |-> name,
                           timers |-> @.timers + 1]]

\* the timer callback of displayNiceListResult
hideNiceList(s) ==
    [s EXCEPT !.checker.display = "none", !.checker.timers = @ - 1]

showSearchStatus(s, show) ==
    [s EXCEPT !.searchStatus = IF show THEN "block" ELSE "none"]

Rendered(s) == [s EXCEPT !.effects.renders = @ + 1]

\* The retry prompt without the assignment to gallery.innerHTML.
showRetryPromptKeepsCards(s) == s

\* search_failed: gallery.innerHTML = the "Oh dear!" retry prompt
showRetryPrompt(s) ==
    [s EXCEPT !.gallery.kind = "retry", !.gallery.cards = NoCards]

\* The styles selectGift() leaves on a card: the highlight (transform and
\* boxShadow), the dimming (opacity 0.5), or both; no style is ever removed.
Highlighted(style) ==
    IF style \in {"dimmed", "selected+dimmed"} THEN "selected+dimmed"
    ELSE "selected"

Dimmed(style) ==
    IF style \in {"selected", "selected+dimmed"} THEN "selected+dimmed"
    ELSE "dimmed"

\* selectGift() that also puts the clicked gift on the showcase.
selectGiftShowcases(s, optionNumber) ==
    [s EXCEPT !.gallery.display = "none",
              !.showcase = [display |-> "block",
                            image |-> s.gallery.cards[optionNumber].image,
                            name |-> s.gallery.cards[optionNumber].title,
                            price |-> s.gallery.cards[optionNumber].price]]

\* selectGift(optionNumber): visual feedback on the cards, nothing else
selectGift(s, optionNumber) ==
    [s EXCEPT !.gallery.cards =
        [k \in 1..Len(@) |->
            [@[k] EXCEPT !.style = IF k = optionNumber THEN Highlighted(@)
                                   ELSE Dimmed(@)]]]

\* The unwrapping that falls back to params when params.event has no type.
EventDataTypedOnly(params) ==
    IF params.outer.present /\ params.event.present /\ params.event.type # ""
    THEN params.event
    ELSE params.outer

\* The normalizer that never looks inside params.event.
EventDataFlatOnly(params) == params.outer

\* The event data handleUserEvent works on: params.event when params is there
\* and carries one, else params. params is [outer, event]: the message itself
\* and its event field, each [present, type, gifts, gift, name, status].
EventData(params) ==
    IF params.outer.present /\ params.event.present
    THEN params.event
    ELSE params.outer

\* if (!eventData || !eventData.type) return;  a missing type is "".
Usable(eventData) == eventData.present /\ eventData.type # ""

\* handleUserEvent(params)
handleUserEvent(s, params) ==
    LET d == EventData(params)
    IN  IF ~Usable(d) THEN s
        ELSE CASE d.type = "gifts_found" ->
                    Rendered(updateStatus(showSearchStatus(
                        displayGifts(
                            [s EXCEPT !.showcase.display = "none",
                                      !.gallery.display = "grid"],
                            d.gifts),
                        FALSE), "selecting"))
               [] d.type = "gift_selected" ->
                    LET g == displaySelectedGift(s, d.gift)
                    IN  IF ~d.gift.present THEN g
                        ELSE Rendered(updateStatus(
                                 [g EXCEPT !.effects.sounds = @ + 1,
                                           !.effects.confetti = @ + 1],
                                 "confirmed"))
               [] d.type = "nice_list_checked" ->
                    Rendered(displayNiceListResult(s, d.name))
               [] d.type = "search_failed" ->
                    Rendered(showRetryPrompt(
                        updateStatus(showSearchStatus(s, FALSE), "error")))
               [] d.type = "searching" ->
                    Rendered(updateStatus(showSearchStatus(
                        [s EXCEPT !.showcase.display = "none",
                                  !.gallery.display = "grid",
                                  !.gallery.kind = "cards",
                                  !.gallery.cards = NoCards],
                        TRUE), "searching"))
               [] OTHER -> s

\* One message of the transport reaches handleUserEvent once for each
\* subscription it is delivered on: client.on('user_event') and
\* roomSession.on('user_event').
deliverUserEvent(s, params, onClient, onSession) ==
    LET a == IF onClient THEN handleUserEvent(s, params) ELSE s
        b == IF onSession THEN handleUserEvent(a, params) ELSE a
    IN  [b EXCEPT !.emitted = @ + 1, !.heard = Append(@, params)]

\* -------------------------------------------------------- audio settings
Settings ==
    [echoCancellation : BOOLEAN, noiseSuppression : BOOLEAN,
     autoGainControl : BOOLEAN]

SettingNames == {"echoCancellation", "noiseSuppression", "autoGainControl"}

\* let audioSettings = { echoCancellation: true, ... }
DefaultSettings ==
    [echoCancellation |-> TRUE, noiseSuppression |-> FALSE,
     autoGainControl |-> FALSE]

\* What localStorage.getItem('santaAudioSettings') returns: null ("absent"),
\* the empty string, a string that is not JSON ("garbage"), or the JSON text
\* of a settings object, kept as [kind |-> "json", value |-> the object].
NoItem == [kind |-> "absent", value |-> DefaultSettings]
StoredValues ==
    { [kind |-> k, value |-> DefaultSettings] : k \in {"absent", "empty", "garbage"} }
    \cup { [kind |-> "json", value |-> v] : v \in Settings }

\* JSON.stringify(audioSettings)
Stringify(settings) == [kind |-> "json", value |-> settings]

\* JSON.parse(saved) of a string that is JSON
Parse(saved) == saved.value

\* if (saved): null and '' are falsy
Truthy(saved) == saved.kind \notin {"absent", "empty"}

\* initializeSettings(): JSON.parse throws on a string that is not JSON and
\* the function is left before the checkboxes and listeners are set up.
initializeSettings(s) ==
    IF ~Truthy(s.storage) THEN s
    ELSE IF s.storage.kind = "json"
         THEN [s EXCEPT !.audioSettings = Parse(s.storage)]
         ELSE [s EXCEPT !.escaped = TRUE]

\* The DOMContentLoaded listener: initializeUI(), initializeSettings(), then
\* the lights, the snowfall and the countdown; an exception ends it.
domContentLoaded(s) ==
    LET a == initializeSettings(s)
    IN  [a EXCEPT !.startup = IF a.escaped # s.escaped THEN "aborted"
                                                       ELSE "done"]

\* saveSettings()
saveSettings(s) == [s EXCEPT !.storage = Stringify(s.audioSettings)]

\* A checkbox's 'change' listener: audioSettings[name] = e.target.checked
changeSetting(s, name, checked) ==
    saveSettings([s EXCEPT !.audioSettings[name] = checked])

\* ------------------------------------------------------- message inputs
NoGift == [title |-> "", price |-> "", description |-> "", image |-> ""]
Robot == [NoGift EXCEPT !.title = "Robot"]
RobotPriced == [Robot EXCEPT !.price = "$19.99"]

Everything == [title |-> "Robot", price |-> "$19.99",
               description |-> "Beeps", image |-> "robot.png"]

NoData ==
    [ present |-> TRUE, type |-> "",
      gifts |-> [present |-> FALSE, list |-> << >>],
      gift |-> [present |-> FALSE, g |-> NoGift], name |-> "", status |-> "" ]

Absent == [NoData EXCEPT !.present = FALSE]

\* { type: ... }, { event: { type: ... } } and { type: t, event: {...} }
Flat(d) == [outer |-> d, event |-> Absent]
Nested(d) == [outer |-> NoData, event |-> d]
Wrapping(t, d) == [outer |-> [NoData EXCEPT !.type = t], event |-> d]

GiftsFound(list) ==
    [NoData EXCEPT !.type = "gifts_found",
                   !.gifts = [present |-> TRUE, list |-> list]]
GiftSelected(g) ==
    [NoData EXCEPT !.type = "gift_selected",
                   !.gift = [present |-> TRUE, g |-> g]]

\* Messages that carry a usable type.
TypedEvents ==
    { Flat(GiftsFound(<< Robot >>)),
      Flat(GiftsFound(<< Everything, NoGift >>)),
      Flat(GiftsFound(<< >>)),
      Flat([NoData EXCEPT !.type = "gifts_found"]),
      Flat(GiftSelected(RobotPriced)),
      Flat([NoData EXCEPT !.type = "gift_selected"]),
      Nested([NoData EXCEPT !.type = "nice_list_checked", !.name = "Ann",
                            !.status = "nice"]),
      Flat([NoData EXCEPT !.type = "searching"]),
      Flat([NoData EXCEPT !.type = "search_failed"]),
      Flat([NoData EXCEPT !.type = "elf_report"]) }

\* Messages without one: no message, no type, an event field without a type.
UntypedEvents ==
    { [outer |-> Absent, event |-> Absent],
      Flat(NoData),
      Wrapping("searching", NoData) }

UserEvents == TypedEvents \cup UntypedEvents

\* The messages of one gift conversation with the agent.
AgentEvents ==
    { Flat(GiftsFound(<< Robot >>)),
      Flat(GiftSelected(RobotPriced)),
      Nested([NoData EXCEPT !.type = "nice_list_checked", !.name = "Ann",
                            !.status = "nice"]) }

\* ------------------------------------------------------------------ Init
\* The module-level `let`s as declared, and the page as resetUI() and
\* disconnect() restore it ("initial state"); the SDK build fixes streamAt.
Init ==
    /\ client = Null
    /\ roomSession = Null
    /\ isMuted = FALSE
    /\ startBtn = [display |-> "block", disabled |-> FALSE, text |-> TalkText]
    /\ endBtn = "none"
    /\ muteBtn = [display |-> "none", text |-> MuteText]
    /\ placeholder = "shown"
    /\ videos = {}
    /\ gallery = WelcomeGallery("grid")
    /\ showcase = [display |-> "none", image |-> "", name |-> "", price |-> ""]
    /\ searchStatus = "none"
    /\ checker = [display |-> "none", name |-> "", timers |-> 0]
    /\ status = "waiting"
    /\ effects = [sounds |-> 0, confetti |-> 0, renders |-> 0]
    /\ pc = [i \in Calls |-> "unused"]
    /\ hangups = [i \in Calls |-> 0]
    /\ clients = [i \in Calls |-> "none"]
    /\ sessions = [i \in Calls |-> "none"]
    /\ streamAt \in StreamPaths
    /\ tracks = [i \in Calls |-> FreshTracks]
    /\ emitted = 0
    /\ heard = << >>
    /\ giftState = [searchQuery |-> "", gifts |-> << >>, selectedGift |-> Null,
                    status |-> "waiting"]
    /\ audioSettings = DefaultSettings
    /\ storage = NoItem
    /\ startup = "done"
    /\ escaped = FALSE
    /\ last = "init"

\* The page before DOMContentLoaded, with any item in localStorage.
InitLoading ==
    /\ client = Null
    /\ roomSession = Null
    /\ isMuted = FALSE
    /\ startBtn = [display |-> "block", disabled |-> FALSE, text |-> TalkText]
    /\ endBtn = "none"
    /\ muteBtn = [display |-> "none", text |-> MuteText]
    /\ placeholder = "shown"
    /\ videos = {}
    /\ gallery = WelcomeGallery("grid")
    /\ showcase = [display |-> "none", image |-> "", name |-> "", price |-> ""]
    /\ searchStatus = "none"
    /\ checker = [display |-> "none", name |-> "", timers |-> 0]
    /\ status = "waiting"
    /\ effects = [sounds |-> 0, confetti |-> 0, renders |-> 0]
    /\ pc = [i \in Calls |-> "unused"]
    /\ hangups = [i \in Calls |-> 0]
    /\ clients = [i \in Calls |-> "none"]
    /\ sessions = [i \in Calls |-> "none"]
    /\ streamAt \in StreamPaths
    /\ tracks = [i \in Calls |-> FreshTracks]
    /\ emitted = 0
    /\ heard = << >>
    /\ giftState = [searchQuery |-> "", gifts |-> << >>, selectedGift |-> Null,
                    status |-> "waiting"]
    /\ audioSettings = DefaultSettings
    /\ storage \in StoredValues
    /\ startup = "loading"
    /\ escaped = FALSE
    /\ last = "init"

\* --------------------------------------------------------------- actions
\* initializeUI() has registered the click listeners of the three controls.
Wired == startup # "loading"

\* A click on the start control (it can be clicked while it is displayed).
StartCall ==
    /\ Wired
    /\ startBtn.display = "block"
    /\ IF startBtn.disabled THEN TRUE ELSE NextCall(Cur) <= MaxCalls
    /\ Becomes(Did(startCall(Cur, NextCall(Cur)),
                   IF startBtn.disabled THEN "startCall.guard" ELSE "startCall"))

ClientSettles ==
    \E i \in Calls, ok \in BOOLEAN :
        /\ pc[i] = "awaitClient"
        /\ Becomes(Did(startCallClient(Cur, i, ok),
                       IF ok THEN "client.ok" ELSE "client.fail"))

DialSettles ==
    \E i \in Calls, ok \in BOOLEAN :
        /\ pc[i] = "awaitDial"
        /\ Becomes(Did(startCallDial(Cur, i, ok),
                       IF ok THEN "dial.ok" ELSE "dial.fail"))

StartSettles ==
    \E i \in Calls, ok \in BOOLEAN :
        /\ pc[i] = "awaitStart"
        /\ Becomes(Did(startCallStart(Cur, i, ok),
                       IF ok THEN "start.ok" ELSE "start.fail"))

\* The listeners of a session exist once dial has returned it; they are never
\* removed, so every session made so far can still signal.
Listening(i) == sessions[i] # "none"
SomeListening == \E i \in Calls : Listening(i)

CallJoined == SomeListening /\ Becomes(Did(onCallJoined(Cur), "call.joined"))

CallUpdated == SomeListening /\ Becomes(Did(onCallUpdated(Cur), "call.updated"))

CallEnded == SomeListening /\ Becomes(Did(onCallEnded(Cur), "call.ended"))

Destroy == SomeListening /\ Becomes(Did(onDestroy(Cur), "destroy"))

RoomLeft == SomeListening /\ Becomes(Did(onRoomLeft(Cur), "room.left"))

MediaConnected ==
    \E i \in Calls :
        Listening(i) /\ Becomes(Did(onMediaConnected(Cur, i), "media.connected"))

CanSuspendHangup ==
    IF roomSession = Null THEN TRUE ELSE hangups[roomSession] < MaxPending

\* A click on the end control.
EndCall ==
    /\ Wired
    /\ endBtn = "block"
    /\ CanSuspendHangup
    /\ Becomes(Did(endCall(Cur),
                   IF roomSession # Null THEN "endCall.await" ELSE "endCall.sync"))

BeforeUnload ==
    /\ CanSuspendHangup
    /\ Becomes(Did(beforeUnload(Cur),
                   IF roomSession # Null THEN "beforeunload.await"
                                         ELSE "beforeunload.skip"))

HangupSettles ==
    \E i \in Calls, ok \in BOOLEAN :
        /\ hangups[i] > 0
        /\ Becomes(Did(hangupSettled(Cur, i, ok),
                       IF ok THEN "hangup.ok" ELSE "hangup.fail"))

\* A click on the mute control.
ToggleMute ==
    /\ Wired
    /\ muteBtn.display = "block"
    /\ Becomes(Did(toggleMute(Cur), "toggleMute"))

\* The transport emits params; it reaches the subscriptions that exist.
UserEventOf(params) ==
    \E i \in Calls, onClient, onSession \in BOOLEAN :
        /\ emitted < MaxEvents
        /\ onClient \/ onSession
        /\ onClient => clients[i] = "open"
        /\ onSession => Listening(i)
        /\ Becomes(Did(deliverUserEvent(Cur, params, onClient, onSession),
                       "user_event"))

UserEvent == \E params \in UserEvents : UserEventOf(params)

AgentEvent == \E params \in AgentEvents : UserEventOf(params)

NiceListTimer ==
    /\ checker.timers > 0
    /\ Becomes(Did(hideNiceList(Cur), "timer"))

\* A click on a card of the displayed gallery: card.onclick calls
\* selectGift with the card's option number.
CardClick ==
    \E k \in 1..Len(gallery.cards) :
        /\ Wired
        /\ gallery.display = "grid"
        /\ Becomes(Did(selectGift(Cur, gallery.cards[k].option), "selectGift"))

\* The call lifecycle: the controls, startCall's continuations, the session's
\* signals and hangup's continuation.
Next ==
    \/ StartCall \/ ClientSettles \/ DialSettles \/ StartSettles
    \/ CallJoined \/ CallUpdated \/ CallEnded \/ Destroy \/ RoomLeft
    \/ MediaConnected
    \/ EndCall \/ BeforeUnload \/ HangupSettles
    \/ ToggleMute

Spec == Init /\ [][Next]_vars

\* Calls that are started, joined and hung up, with the agent's user_event
\* messages and the nice-list timer.
NextEvents ==
    \/ StartCall \/ ClientSettles \/ DialSettles \/ StartSettles
    \/ CallJoined \/ MediaConnected
    \/ EndCall \/ HangupSettles
    \/ AgentEvent \/ NiceListTimer

SpecEvents == Init /\ [][NextEvents]_vars

\* The dispatcher under every shape of message: a client and a session are
\* set up and messages arrive on their subscriptions. Where the local stream
\* is exposed has no bearing on it.
InitGifts == Init /\ streamAt = "primary"

NextGifts ==
    \/ StartCall \/ ClientSettles \/ DialSettles
    \/ UserEvent \/ NiceListTimer \/ CardClick

SpecGifts == InitGifts /\ [][NextGifts]_vars

\* A destroy signal whose disconnect() meets an error at step f.
DestroyThrowingAt(f) ==
    /\ SomeListening
    /\ FaultApplies(Cur, f)
    /\ Becomes(Did(disconnectThrowing(Cur, f), "destroy.error"))

DestroyThrowing == \E f \in Faults : DestroyThrowingAt(f)

\* The call lifecycle with destroy signals whose cleanup meets errors.
NextFaults ==
    \/ StartCall \/ ClientSettles \/ DialSettles \/ StartSettles
    \/ CallJoined \/ MediaConnected
    \/ Destroy \/ DestroyThrowing

SpecFaults == Init /\ [][NextFaults]_vars

DOMContentLoaded ==
    /\ startup = "loading"
    /\ Becomes(Did(domContentLoaded(Cur), "DOMContentLoaded"))

\* The user changes a checkbox; its listener exists once initializeSettings()
\* has run to its end.
ChangeSetting ==
    \E name \in SettingNames, checked \in BOOLEAN :
        /\ startup = "done"
        /\ Becomes(Did(changeSetting(Cur, name, checked), "change"))

\* Page load with a stored item, changes of the settings, and the set-up of a
\* call, which reads the settings.
NextSettings ==
    \/ DOMContentLoaded \/ ChangeSetting
    \/ StartCall \/ ClientSettles \/ DialSettles

SpecSettings == InitLoading /\ [][NextSettings]_vars

\* ============================================================ properties
\* IDLE as the page shows it: no session handle, no client handle, the start
\* control displayed and enabled, the end and mute controls hidden.
Idle ==
    /\ roomSession = Null
    /\ client = Null
    /\ startBtn.display = "block"
    /\ ~startBtn.disabled
    /\ endBtn = "none"
    /\ muteBtn.display = "none"

\* startCall invocation i is suspended at one of its three awaits.
Connecting(i) == pc[i] \in {"awaitClient", "awaitDial", "awaitStart"}

NoHangupPending == \A i \in Calls : hangups[i] = 0

\* Every local media track of session i is stopped (a build that exposes no
\* local stream has no local track to stop).
LocalTracksStopped(i) ==
    streamAt = "none" \/ \A t \in Tracks : tracks[i][t].stopped

\* Handlers that end with disconnect(): the termination triggers, once a
\* suspended hangup() has resumed.
TerminationOps ==
    {"call.ended", "destroy", "room.left", "hangup.ok", "hangup.fail", "endCall.sync"}

\* C1: once call 1 has become ACTIVE (startCall ran to its end) and no other
\* call was started, after any termination trigger has been handled and no
\* hangup() is left suspended, the system is IDLE with every local media track
\* of the session stopped.
C1_TerminationEndsIdle ==
    (/\ NextCall(Cur) = 2
     /\ pc[1] = "done"
     /\ last \in TerminationOps
     /\ NoHangupPending)
    => Idle /\ LocalTracksStopped(1)

\* A session that was made and is not cleaned up: its handle is still held or
\* its local tracks are not stopped.
LiveSession(i) ==
    sessions[i] = "made" /\ (roomSession = i \/ ~LocalTracksStopped(i))

\* C2: at most one session that was created and not yet cleaned up exists.
C2_AtMostOneLiveSession ==
    Cardinality({i \in Calls : LiveSession(i)}) <= 1

\* C3: while one startCall invocation is CONNECTING no second invocation gets
\* past the guard, so never two invocations are suspended at once and at
\* most one client and one session are made during it.
C3_SecondStartIsNoOp ==
    \A i, j \in Calls : Connecting(i) /\ Connecting(j) => i = j

FailOps == {"client.fail", "dial.fail", "start.fail"}

\* C4: after startCall failed at an await the start control is enabled, the
\* error status is reported and no handle of a failed attempt is retained.
C4_FailedStartEndsIdle ==
    last \in FailOps =>
        /\ ~startBtn.disabled
        /\ status = "error"
        /\ \A i \in Calls : pc[i] = "failed" => client # i /\ roomSession # i

\* C5: when a suspended hangup() resumes, whether the transport's hangup
\* resolved or rejected, the system is IDLE and no error has left the handler.
C5_HangupAlwaysCleansUp ==
    last \in {"hangup.ok", "hangup.fail"} => Idle /\ ~escaped

\* C5 witness: the transport's hangup of the only, ACTIVE, call was rejected
\* and the system is IDLE with that session's tracks stopped.
C5_Witness ==
    /\ last = "hangup.fail"
    /\ NextCall(Cur) = 2 /\ pc[1] = "done"
    /\ streamAt = "primary" /\ \A t \in Tracks : tracks[1][t].stopped
    /\ clients[1] = "closed"
    /\ Idle /\ ~escaped

\* The program's variables (all but the history).
progVars ==
    << client, roomSession, isMuted, startBtn, endBtn, muteBtn, placeholder,
       videos, gallery, showcase, searchStatus, checker, status, effects, pc,
       hangups, clients, sessions, streamAt, tracks, emitted, giftState,
       audioSettings, storage, startup, escaped >>

\* C6: a disconnect() made when both handles are absent (here: by a destroy
\* or room.left signal) changes no state, and disconnect() twice is
\* disconnect() once.
C6_DisconnectIsNoOpWhenReleased ==
    [][ /\ (roomSession = Null /\ client = Null /\ (Destroy \/ RoomLeft))
            => UNCHANGED progVars
        /\ Prog(disconnect(disconnect(Cur))) = Prog(disconnect(Cur)) ]_vars

\* A call is in progress: an invocation is CONNECTING, or its session is held.
CallInProgress(i) == Connecting(i) \/ (pc[i] = "done" /\ roomSession = i)

\* C7: when beforeunload fires during a call, the handler leaves the call
\* cleaned up: handles released and the session's local tracks stopped,
\* with no hangup() left waiting for the transport.
C7_UnloadCleansUp ==
    [][ \A i \in Calls :
            (BeforeUnload /\ CallInProgress(i))
                => /\ roomSession' = Null /\ client' = Null
                   /\ sessions[i] = "made" => LocalTracksStopped(i)'
                   /\ NoHangupPending' ]_vars

AudioEnabled(s, i) == [t \in {u \in Tracks : IsAudio(u)} |-> s.tracks[i][t].enabled]

\* C8: with an active session and the mute control shown, toggleMute() twice
\* leaves every local audio track's enabled flag as it was.
C8_ToggleTwiceRestoresTracks ==
    (roomSession # Null /\ muteBtn.display = "block" /\ streamAt # "none")
    => AudioEnabled(toggleMute(toggleMute(Cur)), roomSession)
           = AudioEnabled(Cur, roomSession)

\* C9: when the session of the only call was torn down while startCall was
\* suspended at roomSession.start(), then once that await has settled the
\* system is IDLE.
C9_MidSetupTerminationEndsIdle ==
    (/\ NextCall(Cur) = 2
     /\ last \in {"start.ok", "start.fail"}
     /\ roomSession = Null)
    => Idle

\* C10: every message the transport emits is rendered at most once, with its
\* sound, confetti and nice-list timer at most once.
C10_RenderedOncePerEvent ==
    /\ effects.renders <= emitted
    /\ effects.sounds <= emitted
    /\ effects.confetti <= emitted
    /\ checker.timers <= emitted

\* The step is the emission of message p.
Emits(p) == heard' = Append(heard, p) /\ UserEventOf(p)

\* The gift UI and what the dispatcher reports.
giftVars ==
    << gallery, showcase, searchStatus, checker, effects, status, giftState >>

\* C11: handling a user_event message, whatever its type and whichever of
\* its optional fields are there, raises no error.
C11_HandleUserEventNeverThrows ==
    last = "user_event" => ~escaped

\* C12: a message from which no usable type can be extracted (no message, no
\* type field, a nested event without a type) is dropped: the gallery, the
\* showcase, the search indicator, the nice-list panel, the effects and the
\* gift status are as before, and no error is raised.
C12_UntypedMessageIsDropped ==
    [][ \A p \in UntypedEvents :
            Emits(p) => UNCHANGED giftVars /\ escaped' = escaped ]_vars

\* C12 witness: search results are displayed and a message whose event field
\* has no type (while the message itself names "searching") was emitted.
C12_Witness ==
    /\ last = "user_event"
    /\ heard = << Flat(GiftsFound(<< Robot >>)), Wrapping("searching", NoData) >>
    /\ gallery.kind = "cards" /\ Len(gallery.cards) = 1
    /\ searchStatus = "none"

GiftStatuses == {"waiting", "searching", "selecting", "confirmed", "error"}

StatusAfter(type, before) ==
    CASE type = "gifts_found" -> "selecting"
      [] type = "gift_selected" -> "confirmed"
      [] type = "searching" -> "searching"
      [] type = "search_failed" -> "error"
      [] OTHER -> before

\* C13: giftState.status follows the event type: selecting after gifts_found,
\* confirmed after gift_selected, searching after searching, error after
\* search_failed, unchanged after any other type; it is always one of waiting,
\* searching, selecting, confirmed, error.
C13_StatusFollowsEvent ==
    [][ \A p \in TypedEvents :
            Emits(p) =>
                /\ giftState'.status \in GiftStatuses
                /\ giftState'.status =
                       StatusAfter(EventData(p).type, giftState.status) ]_vars

\* gifts_found messages whose gifts field is absent or an empty list.
EmptyGiftsEvents ==
    { Flat(GiftsFound(<< >>)), Flat([NoData EXCEPT !.type = "gifts_found"]) }

\* C14 as stated: a gifts_found message with absent or empty gifts leaves the
\* gallery's contents and the visibility of gallery and showcase as they were.
C14_EmptyGiftsChangeNothing ==
    [][ \A p \in EmptyGiftsEvents :
            (Emits(p) /\ ~escaped) =>
                /\ gallery' = gallery
                /\ showcase'.display = showcase.display ]_vars

\* C14 as the code has it: a gifts_found message with absent or empty gifts
\* leaves the gallery's contents as they were; it displays the gallery, hides
\* the showcase and hides the search indicator.
C14_EmptyGiftsKeepContents ==
    [][ \A p \in EmptyGiftsEvents :
            Emits(p) =>
                /\ gallery'.kind = gallery.kind
                /\ gallery'.cards = gallery.cards
                /\ gallery'.display = "grid"
                /\ showcase' = [showcase EXCEPT !.display = "none"]
                /\ searchStatus' = "none" ]_vars

\* C14 witness: the showcase was shown for the selected gift, then an empty
\* gifts_found arrived: the gallery is displayed again, the showcase hidden.
C14_Witness ==
    /\ last = "user_event"
    /\ heard = << Flat(GiftSelected(RobotPriced)), Flat(GiftsFound(<< >>)) >>
    /\ gallery = WelcomeGallery("grid")
    /\ showcase.display = "none" /\ showcase.name = "Robot"

\* What a card shows for a field: the gift's value, or the fallback.
Shown(v, fallback) == IF v # "" THEN v ELSE fallback

\* C15: after a gifts_found message with a non-empty list the gallery holds
\* one card per gift, in the order given, numbered 1..n, and each of title,
\* price, description and image is the gift's value when the gift has one and
\* the fallback otherwise, never blank.
C15_OneCardPerGift ==
    [][ \A p \in TypedEvents :
            LET d == EventData(p)
                n == Len(d.gifts.list)
            IN  (d.type = "gifts_found" /\ n > 0 /\ Emits(p)) =>
                    /\ gallery'.kind = "cards"
                    /\ Len(gallery'.cards) = n
                    /\ \A k \in 1 .. n :
                         LET card == gallery'.cards[k]
                             gift == d.gifts.list[k]
                         IN  /\ card.option = k
                             /\ card.title = Shown(gift.title, FallbackTitle)
                             /\ card.price = Shown(gift.price, FallbackPrice)
                             /\ card.description =
                                    Shown(gift.description, FallbackDescription)
                             /\ card.image = Shown(gift.image, FallbackImage)
                             /\ "" \notin {card.title, card.price,
                                           card.description, card.image} ]_vars

\* C15 witness: a list of a gift with every field and a gift with none was
\* rendered as two cards, the second with the four fallbacks.
C15_Witness ==
    /\ last = "user_event"
    /\ heard # << >>
    /\ heard[Len(heard)] = Flat(GiftsFound(<< Everything, NoGift >>))
    /\ Len(gallery.cards) = 2
    /\ gallery.cards[1].title = "Robot" /\ gallery.cards[1].price = "$19.99"
    /\ gallery.cards[2].title = FallbackTitle
    /\ gallery.cards[2].price = FallbackPrice
    /\ gallery.cards[2].option = 2

\* C16: a search_failed message that arrives while search results are in the
\* gallery replaces them with the retry prompt, hides the search indicator
\* and raises no error.
C16_SearchFailedShowsRetry ==
    [][ \A p \in TypedEvents :
            (/\ EventData(p).type = "search_failed"
             /\ gallery.kind = "cards" /\ Len(gallery.cards) > 0
             /\ Emits(p)) =>
                /\ gallery'.kind = "retry"
                /\ gallery'.cards = NoCards
                /\ searchStatus' = "none"
                /\ escaped' = escaped ]_vars

\* C16 witness: search results, then search_failed: the retry prompt is in
\* the gallery and nothing was thrown.
C16_Witness ==
    /\ last = "user_event"
    /\ heard = << Flat(GiftsFound(<< Robot >>)),
                  Flat([NoData EXCEPT !.type = "search_failed"]) >>
    /\ gallery.kind = "retry" /\ gallery.cards = NoCards
    /\ gallery.display = "grid"
    /\ searchStatus = "none"
    /\ ~escaped

\* The only call is ACTIVE and joined: startCall() ran to its end, the session
\* is held, the placeholder is hidden, the end and mute controls are shown.
OneCallActive ==
    /\ NextCall(Cur) = 2 /\ pc[1] = "done" /\ roomSession = 1
    /\ placeholder = "none"
    /\ startBtn.display = "none" /\ endBtn = "block" /\ muteBtn.display = "block"

RobotFound == Flat(GiftsFound(<< Robot >>))
RobotSelected == Flat(GiftSelected(RobotPriced))

\* The showcase stage of the trace: Robot was found and selected during the
\* ACTIVE call and the showcase shows it with the gallery hidden.
ShowcaseStage ==
    /\ OneCallActive
    /\ heard = << RobotFound, RobotSelected >>
    /\ gallery.display = "none"
    /\ showcase.display = "block"
    /\ showcase.name = "Robot" /\ showcase.price = "$19.99"

\* IDLE with the page as it was at the start.
IdleRestored ==
    /\ Idle
    /\ placeholder = "shown"
    /\ gallery = WelcomeGallery("grid")
    /\ showcase.display = "none"

\* C17: in the trace start, joined, gifts_found [Robot], gift_selected Robot
\* $19.99, hangup: after gifts_found the gallery holds exactly one card
\* titled Robot with the fallback price and description; after gift_selected
\* the showcase is visible with Robot and $19.99 and the gallery is hidden;
\* after the hangup the system is IDLE with the placeholder and the welcome
\* gallery restored and the showcase hidden.
C17_EndToEndTrace ==
    [][ /\ (OneCallActive /\ heard = << >> /\ Emits(RobotFound)) =>
               /\ gallery'.display = "grid" /\ Len(gallery'.cards) = 1
               /\ gallery'.cards[1].title = "Robot"
               /\ gallery'.cards[1].price = FallbackPrice
               /\ gallery'.cards[1].description = FallbackDescription
        /\ (OneCallActive /\ heard = << RobotFound >>
                /\ Emits(RobotSelected)) => ShowcaseStage'
        /\ (ShowcaseStage /\ hangups[1] = 0 /\ EndCall) => hangups'[1] = 1
        /\ (ShowcaseStage /\ last = "endCall.await" /\ HangupSettles) =>
               IdleRestored' ]_vars

\* C18: loading the settings at DOMContentLoaded raises no error and lets
\* the rest of startup run; the settings are the defaults when the stored item
\* is absent or does not parse and the stored settings when it parses; every
\* change of a setting is written to storage.
C18_SettingsLoadNeverFails ==
    [][ /\ DOMContentLoaded =>
               /\ ~escaped' /\ startup' = "done"
               /\ storage.kind \in {"absent", "garbage"} =>
                      audioSettings' = DefaultSettings
               /\ storage.kind = "json" => audioSettings' = storage.value
        /\ ChangeSetting => storage' = Stringify(audioSettings') ]_vars

\* A step of a handler that calls disconnect(): a termination signal, a
\* hangup() that resumes, or a hangup() that finds no session.
DisconnectInvoked ==
    \/ CallEnded \/ Destroy \/ RoomLeft
    \/ HangupSettles
    \/ (roomSession = Null /\ EndCall)

\* C19: for the session of a call that became ACTIVE, disconnect() is invoked
\* once: every invocation finds the session still held, so none is a repeated
\* invocation for a session that was cleaned up already.
C19_CleanupOncePerSession ==
    [][ (NextCall(Cur) = 2 /\ pc[1] = "done" /\ DisconnectInvoked)
            => roomSession = 1 ]_vars

\* C20: when a step of disconnect() raises an error (stopping a local track,
\* disconnecting the client, stopping a rendered stream's track) while the
\* only call is ACTIVE, the session handle and the client handle are still
\* released, the placeholder is restored, the controls are reset and the
\* system is IDLE.
C20_CleanupStepsAreGuarded ==
    [][ (NextCall(Cur) = 2 /\ pc[1] = "done" /\ roomSession = 1
            /\ DestroyThrowing)
            => /\ roomSession' = Null /\ client' = Null
               /\ placeholder' = "shown"
               /\ Idle' ]_vars

\* C21: toggleMute() on a session whose local stream is found on neither
\* path changes nothing: the mute flag and the mute control's label are as
\* before.
C21_MuteUnavailableChangesNothing ==
    [][ (ToggleMute /\ roomSession # Null /\ streamAt = "none")
            => isMuted' = isMuted /\ muteBtn' = muteBtn ]_vars

\* The controls of an active call: end and mute shown, start hidden.
ActiveControls ==
    startBtn.display = "none" /\ endBtn = "block" /\ muteBtn.display = "block"

\* C22 as stated: the active-call state is shown only for a session whose
\* joined signal was received (the listener has hidden the placeholder).
C22_ActiveOnlyAfterJoined ==
    (NextCall(Cur) = 2 /\ roomSession = 1 /\ ActiveControls
        /\ status = "connected")
    => placeholder = "none"

\* A startCall() invocation passes its `await roomSession.start()`.
StartResolved == \E i \in Calls : pc[i] = "awaitStart" /\ pc'[i] = "done"

\* C22 as the code has it: the active-call state is shown on, and only on,
\* the resolution of roomSession.start(); the joined signal hides the
\* placeholder and changes no control.
C22_ActiveOnStartResolved ==
    [][ /\ StartResolved => ActiveControls' /\ status' = "connected"
        /\ (\/ endBtn' = "block" /\ endBtn # "block"
            \/ muteBtn'.display = "block" /\ muteBtn.display # "block"
            \/ startBtn'.display = "none" /\ startBtn.display # "none"
            \/ status' = "connected" /\ status # "connected")
               => StartResolved
        /\ CallJoined =>
               /\ placeholder' = "none"
               /\ UNCHANGED << startBtn, endBtn, muteBtn, status, roomSession,
                               client, pc >> ]_vars

\* C22 witness: the only call shows the active-call state, start() having
\* resolved, and no joined signal has hidden the placeholder.
C22_Witness ==
    /\ last = "start.ok"
    /\ NextCall(Cur) = 2 /\ pc[1] = "done" /\ roomSession = 1
    /\ ActiveControls /\ status = "connected"
    /\ placeholder = "shown"

\* C23: call.updated changes nothing in any lifecycle state: handles, mute
\* flag, tracks, controls and the rest of the page are as before.
C23_UpdatedIsNoOp ==
    [][ CallUpdated => UNCHANGED progVars ]_vars

\* C23 witness: call.updated was handled during an ACTIVE call, which is
\* still ACTIVE.
C23_Witness ==
    /\ last = "call.updated"
    /\ roomSession = 1 /\ client = 1 /\ pc[1] = "done"
    /\ ActiveControls
    /\ \A t \in Tracks : ~tracks[1][t].stopped

\* The transport's side and the lifecycle: handles, set-up positions,
\* suspended hangups, client and session objects.
lifecycleVars == << roomSession, client, pc, hangups, clients, sessions >>

\* C24: toggleMute() on a held session flips the mute flag and sets the
\* enabled flag of every local audio track to the negation of the new flag,
\* on the primary path and on the peer path alike; video tracks, stopped
\* flags, handles and the lifecycle are untouched.
C24_ToggleMuteSetsAudioTracks ==
    [][ (ToggleMute /\ roomSession # Null) =>
            /\ isMuted' = ~isMuted
            /\ muteBtn'.text = (IF isMuted' THEN UnmuteText ELSE MuteText)
            /\ streamAt \in {"primary", "peer"} =>
                   \A t \in Tracks :
                       /\ IsAudio(t) =>
                              tracks'[roomSession][t].enabled = ~isMuted'
                       /\ ~IsAudio(t) =>
                              tracks'[roomSession][t] = tracks[roomSession][t]
                       /\ tracks'[roomSession][t].stopped
                              = tracks[roomSession][t].stopped
            /\ \A i \in Calls : i # roomSession => tracks'[i] = tracks[i]
            /\ UNCHANGED lifecycleVars
            /\ UNCHANGED << startBtn, endBtn, placeholder >> ]_vars

\* C24 witness: on a build that exposes the stream on the peer path only, the
\* ACTIVE session was muted: every audio track is disabled, every video track
\* still enabled.
C24_Witness ==
    /\ last = "toggleMute"
    /\ streamAt = "peer"
    /\ roomSession = 1 /\ pc[1] = "done"
    /\ isMuted /\ muteBtn.text = UnmuteText
    /\ \A t \in Tracks : tracks[1][t].enabled = ~IsAudio(t)

\* The event data of the messages the transport sends, typed or not.
EventDatas == { EventData(params) : params \in UserEvents }

\* C25: the normalizer unwraps one level: in every reachable state and for
\* every event data d, handling { event: d } gives the page handling d itself
\* gives.
C25_NestedSameAsFlat ==
    \A d \in EventDatas :
        d.present =>
            handleUserEvent(Cur, Nested(d)) = handleUserEvent(Cur, Flat(d))

\* C25 witness: a nice_list_checked message wrapped in `event` was emitted
\* last and rendered: the result panel shows the name it carried.
C25_Witness ==
    /\ last = "user_event"
    /\ heard # << >>
    /\ heard[Len(heard)].event.present
    /\ heard[Len(heard)].event.type = "nice_list_checked"
    /\ ~heard[Len(heard)].outer.present \/ heard[Len(heard)].outer.type = ""
    /\ checker.display = "block"
    /\ checker.name = heard[Len(heard)].event.name

\* What C26 calls the transport state.
transportVars ==
    << roomSession, client, isMuted, tracks, pc, hangups, clients, sessions >>

C27_FirstTimerKeepsPanel ==
    [][ ( /\ checker.timers = 2 /\ checker.display = "block"
          /\ Len(heard) = 2
          /\ \A k \in 1..2 : EventData(heard[k]).type = "nice_list_checked"
          /\ \A i \in Calls : ~Listening(i)
          /\ NiceListTimer )
        => checker'.display = "block" ]_vars

\* A termination signal that session i's listeners can have handled.
SignalFrom(i) ==
    /\ Listening(i)
    /\ last' \in {"call.ended", "destroy", "room.left"}
    /\ CallEnded \/ Destroy \/ RoomLeft

\* A hangup() that was suspended while session i was held resumes.
HangupResumes(i) == hangups[i] > 0 /\ hangups'[i] = hangups[i] - 1

\* C28: a termination signal of an earlier session, or the resumption of a
\* hangup() of an earlier session, leaves the later session that is held as
\* it is: handles, the session's tracks and the controls are unchanged.
C28_EarlierSessionLeavesLaterAlone ==
    [][ \A i, j \in Calls :
            ( /\ i < j /\ roomSession = j /\ sessions[j] = "made"
              /\ SignalFrom(i) \/ HangupResumes(i) )
            => /\ roomSession' = j /\ client' = client
               /\ tracks'[j] = tracks[j]
               /\ UNCHANGED << startBtn, endBtn, muteBtn, placeholder >> ]_vars

\* C29: the controls agree with the handles: end and mute shown with start
\* hidden only while a session is held, and with no handle held and no
\* startCall() in flight the start control is shown and enabled.
C29_ControlsAgreeWithHandle ==
    /\ ActiveControls => roomSession # Null
    /\ (roomSession = Null /\ client = Null
            /\ \A i \in Calls : ~Connecting(i))
       => startBtn.display = "block" /\ ~startBtn.disabled

\* C30: while a session is ACTIVE and its local stream can be reached, the
\* mute flag and the mute control's label agree with the tracks: the flag is
\* set exactly when every local audio track is disabled.
C30_MuteFlagAgreesWithTracks ==
    \A i \in Calls :
        ( /\ roomSession = i /\ pc[i] = "done" /\ ActiveControls
          /\ streamAt # "none" )
        => /\ isMuted <=> \A t \in Tracks : IsAudio(t) => ~tracks[i][t].enabled
           /\ isMuted <=> muteBtn.text = UnmuteText

\* C31: after a search_failed message the retry prompt can be seen, whatever
\* the page showed before: the gallery is displayed and the showcase hidden,
\* also when the showcase of a selected gift was shown. No handler has thrown
\* before the message arrives.
C31_RetryPromptIsVisible ==
    [][ \A p \in TypedEvents :
            (/\ EventData(p).type = "search_failed"
             /\ ~escaped
             /\ Emits(p)) =>
                /\ gallery'.kind = "retry"
                /\ gallery'.display = "grid"
                /\ showcase'.display = "none" ]_vars

====
